---- MODULE Spec2Model ----
(***************************************************************************)
(* sonora/wsgi.py: the gRPC-Web adapter for WSGI servers.                  *)
(*                                                                         *)
(* The model follows one call (and, for the concurrency specification, a   *)
(* second one) through grpcWSGI.__call__, the generator _do_grpc_request   *)
(* and the response producers, one action per step between two points at   *)
(* which another thread or the WSGI server can observe the call.           *)
(*                                                                         *)
(* Conventions                                                             *)
(*   - text (str) is a TLA+ string, bytes are sequences of 0..255;         *)
(*   - an optional number or value is <<>> (None) or <<x>>;                *)
(*   - Python semantics are those of CPython >= 3.7: a StopIteration that  *)
(*     reaches the frame of a generator becomes a RuntimeError (PEP 479).  *)
(***************************************************************************)
EXTENDS Integers, Sequences, FiniteSets, TLC

(***************************************************************************)
(* Bounds of the model.                                                    *)
(***************************************************************************)
\* the largest number of operations a handler performs before it ends
MaxOps == 3
\* the largest reading of time.monotonic(), in nanoseconds
MaxClock == 1

(***************************************************************************)
(* Python values.                                                          *)
(***************************************************************************)
\* None where a str is expected (context.details, environ.get(...))
None == "<None>"

\* bool(x) of an optional str
TruthyText(s) == s # None /\ s # ""

\* bool(x) of a handler's return value: None and 0 are falsy
TruthyValue(r) == r # <<>> /\ r[1] # 0

RECURSIVE Concat(_)
\* b"".join(chunks)
Concat(chunks) ==
    IF chunks = <<>> THEN <<>> ELSE Head(chunks) \o Concat(Tail(chunks))

\* the characters whose code str.encode() is asked for
Ascii ==
    [ch \in {"\r", "\n", " ", "%", "-", ":", "0", "1", "2", "3", "4", "5",
             "6", "7", "8", "9", "a", "b", "c", "d", "e", "g", "h", "i", "k",
             "m", "n", "o", "p", "q", "r", "s", "t", "u", "v", "x", "y"} |->
        CASE ch = "\r" -> 13 [] ch = "\n" -> 10 [] ch = " " -> 32
          [] ch = "%" -> 37 [] ch = "-" -> 45 [] ch = ":" -> 58
          [] ch = "0" -> 48 [] ch = "1" -> 49 [] ch = "2" -> 50
          [] ch = "3" -> 51 [] ch = "4" -> 52 [] ch = "5" -> 53
          [] ch = "6" -> 54 [] ch = "7" -> 55 [] ch = "8" -> 56
          [] ch = "9" -> 57 [] ch = "a" -> 97 [] ch = "b" -> 98
          [] ch = "c" -> 99 [] ch = "d" -> 100 [] ch = "e" -> 101
          [] ch = "g" -> 103 [] ch = "h" -> 104 [] ch = "i" -> 105
          [] ch = "k" -> 107 [] ch = "m" -> 109 [] ch = "n" -> 110
          [] ch = "o" -> 111 [] ch = "p" -> 112 [] ch = "q" -> 113
          [] ch = "r" -> 114 [] ch = "s" -> 115 [] ch = "t" -> 116
          [] ch = "u" -> 117 [] ch = "v" -> 118 [] ch = "x" -> 120
          [] ch = "y" -> 121]

\* s[i], a str of length one
CharAt(s, i) == SubSeq(s, i, i)

\* s.encode("ascii")
Encode(s) == [i \in 1..Len(s) |-> Ascii[CharAt(s, i)]]

DecimalDigits == <<"0", "1", "2", "3", "4", "5", "6", "7", "8", "9">>

RECURSIVE Str(_)
\* str(n) of an int n >= 0
Str(n) ==
    IF n < 10 THEN DecimalDigits[n + 1]
    ELSE Str(n \div 10) \o DecimalDigits[(n % 10) + 1]

(***************************************************************************)
(* grpc.StatusCode and the metadata, values and texts handlers use.        *)
(***************************************************************************)
\* grpc.StatusCode.X.value[0] of the status codes of the model
StatusValue ==
    [code \in {"OK", "UNKNOWN", "INVALID_ARGUMENT", "DEADLINE_EXCEEDED",
               "PERMISSION_DENIED", "UNIMPLEMENTED", "INTERNAL",
               "UNAVAILABLE"} |->
        CASE code = "OK" -> 0 [] code = "UNKNOWN" -> 2
          [] code = "INVALID_ARGUMENT" -> 3 [] code = "DEADLINE_EXCEEDED" -> 4
          [] code = "PERMISSION_DENIED" -> 7 [] code = "UNIMPLEMENTED" -> 12
          [] code = "INTERNAL" -> 13 [] code = "UNAVAILABLE" -> 14]

StatusCodes == DOMAIN StatusValue

(***************************************************************************)
(* sonora.protocol and urllib.parse.quote, which wsgi.py calls.            *)
(***************************************************************************)
HexDigits ==
    <<"0", "1", "2", "3", "4", "5", "6", "7", "8", "9",
      "A", "B", "C", "D", "E", "F">>

\* the characters urllib.parse.quote leaves alone (of those in Ascii)
QuoteSafe ==
    {"-", "0", "1", "2", "3", "4", "5", "6", "7", "8", "9", "a", "b", "c",
     "d", "e", "g", "h", "i", "k", "m", "n", "o", "p", "q", "r", "s", "t",
     "u", "v", "x", "y"}

RECURSIVE quote(_)
\* urllib.parse.quote(s): every other character becomes %XX
quote(s) ==
    IF s = "" THEN ""
    ELSE LET ch == CharAt(s, 1)
             q == IF ch \in QuoteSafe THEN ch
                  ELSE "%" \o HexDigits[(Ascii[ch] \div 16) + 1]
                           \o HexDigits[(Ascii[ch] % 16) + 1]
         IN  q \o quote(Tail(s))

\* struct.pack(">I", n)
BigEndian32(n) ==
    <<(n \div 16777216) % 256, (n \div 65536) % 256, (n \div 256) % 256,
      n % 256>>

\* protocol.wrap_message(trailers, compressed, message): the flags byte
\* (trailers << 7 | compressed), the length and the payload
wrap_message(trailers, compressed, message) ==
    <<(IF trailers THEN 128 ELSE 0) + (IF compressed THEN 1 ELSE 0)>>
        \o BigEndian32(Len(message)) \o message

\* protocol.unwrap_message(message): (trailers, compressed, payload) of the
\* leading frame, or a framing error when the header or the payload is cut
unwrap_message(message) ==
    IF Len(message) < 5 THEN [raises |-> "FramingError"]
    ELSE LET length == message[2] * 16777216 + message[3] * 65536
                         + message[4] * 256 + message[5]
         IN  IF Len(message) < 5 + length THEN [raises |-> "FramingError"]
             ELSE [raises |-> None,
                   trailers |-> message[1] \div 128 = 1,
                   compressed |-> message[1] % 2 = 1,
                   payload |-> SubSeq(message, 6, 5 + length)]

RECURSIVE pack_trailers(_)
\* protocol.pack_trailers(trailers): one "key: value\r\n" line per pair
pack_trailers(trailers) ==
    IF trailers = <<>> THEN <<>>
    ELSE Encode(Head(trailers)[1] \o ": " \o Head(trailers)[2] \o "\r\n")
             \o pack_trailers(Tail(trailers))

UpperLetters ==
    <<"A", "B", "C", "D", "E", "F", "G", "H", "I", "J", "K", "L", "M", "N",
      "O", "P", "Q", "R", "S", "T", "U", "V", "W", "X", "Y", "Z">>

LowerLetters ==
    <<"a", "b", "c", "d", "e", "f", "g", "h", "i", "j", "k", "l", "m", "n",
      "o", "p", "q", "r", "s", "t", "u", "v", "w", "x", "y", "z">>

\* str.lower() of one character
LowerChar(ch) ==
    LET at == {i \in 1..26 : UpperLetters[i] = ch}
    IN  IF at = {} THEN ch ELSE LowerLetters[CHOOSE i \in at : TRUE]

RECURSIVE Lower(_)
\* str.lower()
Lower(s) == IF s = "" THEN "" ELSE LowerChar(CharAt(s, 1)) \o Lower(Tail(s))

\* protocol.encode_headers(metadata): keys in lower case, text values as
\* they are (no key of the model carries the binary suffix)
encode_headers(metadata) ==
    [i \in 1..Len(metadata) |-> <<Lower(metadata[i][1]), metadata[i][2]>>]

\* the nanoseconds in one unit of the grpc-timeout header
TimeoutUnit(u) ==
    CASE u = "H" -> 3600 * 1000000000 [] u = "M" -> 60 * 1000000000
      [] u = "S" -> 1000000000 [] u = "m" -> 1000000 [] u = "u" -> 1000
      [] u = "n" -> 1

RECURSIVE ParseDigits(_, _)
\* int(s) of a str of decimal digits read after the value acc: <<>> when a
\* character is no digit
ParseDigits(s, acc) ==
    IF s = "" THEN <<acc>>
    ELSE LET d == {i \in 1..10 : DecimalDigits[i] = CharAt(s, 1)}
         IN  IF d = {} THEN <<>>
             ELSE ParseDigits(Tail(s), acc * 10 + (CHOOSE i \in d : TRUE) - 1)

\* protocol.parse_timeout(value): the magnitude times the unit, in
\* nanoseconds; a ValueError for an empty text, an unknown unit or a
\* magnitude that is no digit string
parse_timeout(value) ==
    IF value = "" THEN [raises |-> "ValueError"]
    ELSE LET unit == CharAt(value, Len(value))
             digits == SubSeq(value, 1, Len(value) - 1)
             count == IF digits = "" THEN <<>> ELSE ParseDigits(digits, 0)
         IN  IF unit \notin {"H", "M", "S", "m", "u", "n"} \/ count = <<>>
             THEN [raises |-> "ValueError"]
             ELSE [raises |-> None, value |-> count[1] * TimeoutUnit(unit)]

(***************************************************************************)
(* _grpc_status_to_wsgi_status                                             *)
(***************************************************************************)
\* a mapping that knows no code: every status line is "200 OK"
StatusLineAlwaysOk(code) == "200 OK"

_grpc_status_to_wsgi_status(code) ==
    CASE code = "OK" -> "200 OK"
      [] code = None -> "200 OK"
      [] code = "UNKNOWN" -> "500 Internal Server Error"
      [] code = "INTERNAL" -> "500 Internal Server Error"
      [] code = "UNAVAILABLE" -> "503 Service Unavailable"
      [] code = "INVALID_ARGUMENT" -> "400 Bad Request"
      [] code = "UNIMPLEMENTED" -> "404 Not Found"
      [] code = "PERMISSION_DENIED" -> "403 Forbidden"
      [] OTHER -> "500 Internal Server Error"

(***************************************************************************)
(* The WSGI environ: an ordered mapping, a sequence of <<key, value>>.     *)
(***************************************************************************)
\* environ.get(key): the value of the first pair with that key, or None
EnvGet(environ, key) ==
    LET at == {i \in 1..Len(environ) : environ[i][1] = key}
    IN  IF at = {} THEN None
        ELSE environ[CHOOSE i \in at : \A j \in at : i <= j][2]

\* key in environ
EnvHas(environ, key) == \E i \in 1..Len(environ) : environ[i][1] = key

(***************************************************************************)
(* grpcWSGI._read_request                                                  *)
(***************************************************************************)
\* stream.read(n) at position pos (1-based): at most n bytes
StreamRead(data, pos, n) ==
    SubSeq(data, pos, IF pos + n - 1 > Len(data) THEN Len(data) ELSE pos + n - 1)

\* stream.readline() at position pos: up to and including the next "\n"
StreamReadline(data, pos) ==
    LET ends == {i \in pos..Len(data) : data[i] = 10}
    IN  IF ends = {} THEN SubSeq(data, pos, Len(data))
        ELSE SubSeq(data, pos, CHOOSE i \in ends : \A j \in ends : i <= j)

\* a size line taken with its chunk extension
WholeLine(line) == line

\* line.split(b";", 1)[0]
BeforeSemicolon(line) ==
    LET at == {i \in 1..Len(line) : line[i] = 59}
    IN  IF at = {} THEN line
        ELSE SubSeq(line, 1, (CHOOSE i \in at : \A j \in at : i <= j) - 1)

\* the bytes int() strips from both ends
IsSpace(b) == b \in {9, 10, 11, 12, 13, 32}

RECURSIVE Strip(_)
\* bytes.strip()
Strip(b) ==
    IF b = <<>> THEN b
    ELSE IF IsSpace(b[1]) THEN Strip(Tail(b))
    ELSE IF IsSpace(b[Len(b)]) THEN Strip(SubSeq(b, 1, Len(b) - 1))
    ELSE b

\* the value of one hexadecimal digit, or -1
HexValue(b) ==
    IF b >= 48 /\ b <= 57 THEN b - 48
    ELSE IF b >= 97 /\ b <= 102 THEN b - 87
    ELSE IF b >= 65 /\ b <= 70 THEN b - 55
    ELSE -1

RECURSIVE HexDigitsValue(_, _)
\* the number the hexadecimal digits b spell after acc, <<>> at a non-digit
HexDigitsValue(b, acc) ==
    IF b = <<>> THEN <<acc>>
    ELSE IF HexValue(b[1]) < 0 THEN <<>>
    ELSE HexDigitsValue(Tail(b), acc * 16 + HexValue(b[1]))

\* int(size, 16) of bytes: <<n>>, or <<>> for the ValueError (signs, the 0x
\* prefix and digit separators are not in the inputs of the model)
IntBase16(size) ==
    LET digits == Strip(size)
    IN  IF digits = <<>> THEN <<>> ELSE HexDigitsValue(digits, 0)

\* size == "\r\n" (line 245): size is bytes and "\r\n" is a str, which are
\* never equal in Python 3
SizeIsTerminator(size) == FALSE

RECURSIVE ReadChunks(_, _, _)
\* the loop of lines 237-254 from stream position pos with the chunks
\* collected in buffer; the position after a read is the position before
\* it plus the bytes read
ReadChunks(data, pos, buffer) ==
    LET line == StreamReadline(data, pos)
        size == BeforeSemicolon(line)
        chunk_size == IntBase16(size)
        after == pos + Len(line)
        chunk == StreamRead(data, after, chunk_size[1] + 2)
    IN  IF line = <<>> THEN [raises |-> None, data |-> Concat(buffer)]
        ELSE IF SizeIsTerminator(size)
             THEN [raises |-> None, data |-> Concat(buffer)]
        ELSE IF chunk_size = <<>> THEN [raises |-> "ValueError"]
        ELSE IF chunk_size[1] = 0
             THEN [raises |-> None, data |-> Concat(buffer)]
        ELSE ReadChunks(data, after + Len(chunk),
                        Append(buffer, SubSeq(chunk, 1, Len(chunk) - 2)))

\* int(content_length) of lines 223-229: <<>> when the header is absent,
\* empty or no number
ContentLength(environ) ==
    LET content_length == EnvGet(environ, "CONTENT_LENGTH")
    IN  IF TruthyText(content_length) THEN ParseDigits(content_length, 0)
        ELSE <<>>

\* _read_request(environ): the request bytes, or the exception raised
_read_request(environ) ==
    LET content_length == ContentLength(environ)
        stream == EnvGet(environ, "wsgi.input")
        transfer_encoding == EnvGet(environ, "HTTP_TRANSFER_ENCODING")
    IN  IF transfer_encoding = "chunked" THEN ReadChunks(stream, 1, <<>>)
        ELSE [raises |-> None,
              data |-> StreamRead(stream, 1,
                           IF content_length = <<>> \/ content_length[1] = 0
                           THEN 5 ELSE content_length[1])]

(***************************************************************************)
(* ServicerContext                                                         *)
(***************************************************************************)
\* the context of a call before _create_context has run
NoContext == [created |-> FALSE]

\* ServicerContext.__init__(timeout, metadata) at clock reading t; timeout
\* is <<>> (None) or <<nanoseconds>>
ServicerContext(timeout, metadata, t) ==
    [created |-> TRUE,
     code |-> "OK",
     details |-> None,
     _timeout |-> timeout,
     _deadline |-> IF timeout # <<>> THEN <<t + timeout[1]>> ELSE <<>>,
     _invocation_metadata |-> metadata,
     _initial_metadata |-> <<>>,
     _trailing_metadata |-> <<>>]

\* context.set_code(code)
set_code(context, code) == [context EXCEPT !.code = code]

\* details that keep the first text they were given
SetDetailsOnce(context, details) ==
    IF context.details = None THEN [context EXCEPT !.details = details]
    ELSE context

\* context.set_details(details)
set_details(context, details) == [context EXCEPT !.details = details]

\* context.send_initial_metadata(initial_metadata)
send_initial_metadata(context, initial_metadata) ==
    [context EXCEPT !._initial_metadata = initial_metadata]

\* context.set_trailing_metadata(trailing_metadata)
set_trailing_metadata(context, trailing_metadata) ==
    [context EXCEPT !._trailing_metadata = trailing_metadata]

\* an abort that takes OK as it takes any other code
AbortWithAnyCode(context, code, details) ==
    [raises |-> "RpcError",
     context |-> set_details(set_code(context, code), details)]

\* context.abort(code, details): the exception it raises and the context
\* it leaves
abort(context, code, details) ==
    IF code = "OK" THEN [raises |-> "ValueError", context |-> context]
    ELSE [raises |-> "RpcError",
          context |-> set_details(set_code(context, code), details)]

\* context.time_remaining() at clock reading t: <<>> (None) or <<ns>>
time_remaining(context, t) ==
    IF context._deadline # <<>>
    THEN <<IF context._deadline[1] - t > 0 THEN context._deadline[1] - t
           ELSE 0>>
    ELSE <<>>

(***************************************************************************)
(* The registered services, the downstream application and the inputs.     *)
(***************************************************************************)
\* the method handlers (grpc.RpcMethodHandler) of the registered services:
\* the streaming flags of each; the serializers are those of every method
UnaryUnary == [request_streaming |-> FALSE, response_streaming |-> FALSE]
UnaryStream == [request_streaming |-> FALSE, response_streaming |-> TRUE]
StreamUnary == [request_streaming |-> TRUE, response_streaming |-> FALSE]
StreamStream == [request_streaming |-> TRUE, response_streaming |-> TRUE]

\* handler.service(handler_call_details) of the two generic handlers added
\* with add_generic_rpc_handlers: <<>> (None) or <<method handler>>
RegisteredHandlers ==
    <<[path \in {"/u", "/s"} |->
          IF path = "/u" THEN UnaryUnary ELSE UnaryStream],
      [path \in {"/c", "/b"} |->
          IF path = "/c" THEN StreamUnary ELSE StreamStream]>>

Service(handler, path) ==
    IF path \in DOMAIN handler THEN <<handler[path]>> ELSE <<>>

Paths == {"/u", "/s", "/c", "/b", "/x"}

RequestMethods == {"POST", "OPTIONS", "GET"}

\* rpc_method.response_serializer(value): one byte per value
response_serializer(value) == <<value>>

\* rpc_method.request_deserializer(message)
request_deserializer(message) == IF message = <<>> THEN 0 ELSE message[1]

\* the serialized request message and its frame
RequestMessage == <<7>>
RequestFrame == wrap_message(FALSE, FALSE, RequestMessage)

\* the request bodies: as many bytes as CONTENT_LENGTH says; no
\* CONTENT_LENGTH (the reader takes 5 bytes); one chunk and the last-chunk;
\* a chunk whose size line is no hexadecimal number
Bodies == {"plain", "nolength", "chunked", "badchunk"}

BodyPairs(body) ==
    CASE body = "plain" ->
           <<<<"CONTENT_LENGTH", Str(Len(RequestFrame))>>,
             <<"wsgi.input", RequestFrame>>>>
      [] body = "nolength" -> <<<<"wsgi.input", RequestFrame>>>>
      [] body = "chunked" ->
           <<<<"HTTP_TRANSFER_ENCODING", "chunked">>,
             <<"wsgi.input",
               Encode("6\r\n") \o RequestFrame \o Encode("\r\n0\r\n\r\n")>>>>
      [] body = "badchunk" ->
           <<<<"HTTP_TRANSFER_ENCODING", "chunked">>,
             <<"wsgi.input", Encode("xy\r\n") \o RequestFrame>>>>

\* the most chunks a chunked request body has before its last-chunk
MaxChunks == 2

\* the chunks of a chunked body, <<payload, style of the size line>>. The
\* payloads: two letters, bytes that read like a last-chunk, the request
\* frame, ten and seventeen bytes (the sizes a and 11). The styles: lower
\* or upper case digits, or lower case digits and a chunk extension
Chunks ==
    {<<<<104, 105>>, "lower">>,
     <<<<13, 10, 48, 13, 10>>, "extension">>,
     <<RequestFrame, "lower">>,
     <<[i \in 1..10 |-> 96 + i], "upper">>,
     <<[i \in 1..10 |-> 96 + i], "lower">>,
     <<[i \in 1..17 |-> i], "extension">>}

HexByte(d, style) ==
    IF d < 10 THEN 48 + d ELSE IF style = "upper" THEN 55 + d ELSE 87 + d

RECURSIVE HexBytes(_, _)
\* the hexadecimal digits of n >= 0
HexBytes(n, style) ==
    IF n < 16 THEN <<HexByte(n, style)>>
    ELSE HexBytes(n \div 16, style) \o <<HexByte(n % 16, style)>>

CRLF == <<13, 10>>

\* the size line of a chunk of n bytes; the extension is ";x"
SizeLine(n, style) ==
    HexBytes(n, style)
        \o (IF style = "extension" THEN <<59, 120>> ELSE <<>>) \o CRLF

\* the bytes of the chunk <<payload, style>>
Chunk(ch) == SizeLine(Len(ch[1]), ch[2]) \o ch[1] \o CRLF

\* the last-chunk and the CRLF that ends the body
LastChunk == SizeLine(0, "lower") \o CRLF

\* the chunks of a body, one after the other, without the last-chunk
ChunkBytes(chunks) == Concat([i \in 1..Len(chunks) |-> Chunk(chunks[i])])

\* a well-formed chunked body
ChunkedBody(chunks) == ChunkBytes(chunks) \o LastChunk

ChunkLists ==
    UNION {[1..k -> Chunks] : k \in 0..MaxChunks}

\* a POST to the unary method with this chunked body
ChunkedEnviron(stream) ==
    <<<<"REQUEST_METHOD", "POST">>, <<"PATH_INFO", "/u">>,
      <<"HTTP_TRANSFER_ENCODING", "chunked">>, <<"wsgi.input", stream>>>>

\* the grpc-timeout headers: none, one nanosecond, one microsecond (longer
\* than the clock runs), and a malformed one
Timeouts == {None, "1n", "1u", "xn"}

Environ(method, path, timeout, body) ==
    <<<<"REQUEST_METHOD", method>>, <<"PATH_INFO", path>>>>
        \o (IF timeout = None THEN <<>>
            ELSE <<<<"HTTP_GRPC_TIMEOUT", timeout>>>>)
        \o BodyPairs(body)

\* the metadata a handler sends
InitialMetadata == <<<<"X-K", "v">>>>
TrailingMetadata == <<<<"k", "v">>, <<"x", "y">>>>

\* what a handler does to its context between two values
ContextOps ==
    {<<"set_code", "INVALID_ARGUMENT">>, <<"set_details", "a b">>,
     <<"send_initial_metadata", InitialMetadata>>,
     <<"set_trailing_metadata", TrailingMetadata>>}

\* the values a server-streaming handler yields
YieldOps == {<<"yield", 1>>, <<"yield", 2>>}

\* the ways a handler aborts
AbortOps ==
    {<<"abort", "INVALID_ARGUMENT", "a b">>, <<"abort", "UNAVAILABLE", "">>,
     <<"abort", "OK", "">>}

\* the values a unary handler returns (0 is falsy); falling off the end of
\* the handler returns None
ReturnOps == {<<"return", 0>>, <<"return", 1>>}

\* the runs of a handler: at most MaxOps operations, then the end of the
\* function, or an abort or (unary) a return as the last operation
Runs(ops, last) ==
    UNION {{body \o tail : body \in [1..k -> ops],
                           tail \in {<<>>} \cup {<<op>> : op \in last}}
           : k \in 0..MaxOps}

UnaryBehaviours == Runs(ContextOps, AbortOps \cup ReturnOps)

StreamBehaviours == Runs(ContextOps \cup YieldOps, AbortOps)

\* the calls the model takes: every request with the empty run, and every
\* run with the well-formed requests that reach the handler
RoutingInputs ==
    {<<Environ(m, p, t, b), <<>>>> :
        m \in RequestMethods, p \in Paths, t \in Timeouts, b \in Bodies}

HandlerInputs ==
    {<<Environ("POST", "/u", t, "plain"), run>> :
        t \in Timeouts \ {"xn"}, run \in UnaryBehaviours}
    \cup {<<Environ("POST", "/s", t, "plain"), run>> :
            t \in Timeouts \ {"xn"}, run \in StreamBehaviours}

\* a chunked body that ends after its chunks, without a last-chunk
TruncatedBody(chunks) == ChunkBytes(chunks)

\* a chunked body whose chunks are followed by a line of CRLF only
TerminatedBody(chunks) == ChunkBytes(chunks) \o CRLF

\* the calls with a chunked body, whose handler returns at once
ReaderInputs ==
    {<<ChunkedEnviron(stream), <<>>>> :
        stream \in UNION {{ChunkedBody(chunks), TruncatedBody(chunks),
                           TerminatedBody(chunks)} : chunks \in ChunkLists}}

\* the downstream application is read only for a path that resolves to no
\* method (line 215): the runs and the chunked bodies are taken by the
\* adapter without one
Inputs(app) ==
    IF app = None THEN RoutingInputs \cup HandlerInputs \cup ReaderInputs
    ELSE RoutingInputs

\* the calls in flight: the first one and one that runs beside it
Calls == {1, 2}

(***************************************************************************)
(* The state.                                                              *)
(***************************************************************************)
VARIABLES
    application,    \* self._application: None or the downstream application
    handlers,       \* self._handlers
    now,            \* the last reading of time.monotonic(), in nanoseconds
    pc,             \* per call: the statement the call is at
    environ,        \* per call: the WSGI environ of the request
    behaviour,      \* per call: the run of the handler implementation
    rpc_method,     \* per call: <<>> or <<the method handler found>>
    result,         \* per call: what __call__ returned to the server
    downstream,     \* per call: the arguments the downstream application got
    request_data,   \* per call: the bytes _read_request returned
    request_proto,  \* per call: the deserialized request
    context,        \* per call: the ServicerContext
    resp,           \* per call: the handler's result
    ip,             \* per call: the handler's position in its run
    first_message,  \* per call: <<>> (unbound) or <<the first value pulled>>
    message,        \* per call: the loop variable of line 131
    message_data,   \* per call: the unary message frame (or b"")
    trailer_data,   \* per call: the unary trailer frame (or b"")
    status,         \* per call: the status line given to start_response
    headers,        \* per call: the headers given to start_response
    body,           \* per call: the chunks handed to the server, in order
    error,          \* per call: the exception that left the application
    log             \* per call: what the call has done so far, in order

vars ==
    <<application, handlers, now, pc, environ, behaviour, rpc_method, result,
      downstream, request_data, request_proto, context, resp, ip,
      first_message, message, message_data, trailer_data, status, headers,
      body, error, log>>

\* the start_response callable the server passes with call c
StartResponse(c) == <<"start_response", c>>

\* self._application(environ, start_response): whatever the downstream
\* application returns for these arguments
Application(e, start_response) ==
    [kind |-> "downstream", environ |-> e, start_response |-> start_response]

Init ==
    /\ application \in {None, "application"}
    /\ handlers = RegisteredHandlers
    /\ now = 0
    /\ pc = [c \in Calls |-> "idle"]
    /\ environ = [c \in Calls |-> <<>>]
    /\ behaviour = [c \in Calls |-> <<>>]
    /\ rpc_method = [c \in Calls |-> <<>>]
    /\ result = [c \in Calls |-> [kind |-> "none"]]
    /\ downstream = [c \in Calls |-> <<>>]
    /\ request_data = [c \in Calls |-> <<>>]
    /\ request_proto = [c \in Calls |-> <<>>]
    /\ context = [c \in Calls |-> NoContext]
    /\ resp = [c \in Calls |-> [kind |-> "none"]]
    /\ ip = [c \in Calls |-> 1]
    /\ first_message = [c \in Calls |-> <<>>]
    /\ message = [c \in Calls |-> <<>>]
    /\ message_data = [c \in Calls |-> <<>>]
    /\ trailer_data = [c \in Calls |-> <<>>]
    /\ status = [c \in Calls |-> None]
    /\ headers = [c \in Calls |-> <<>>]
    /\ body = [c \in Calls |-> <<>>]
    /\ error = [c \in Calls |-> None]
    /\ log = [c \in Calls |-> <<>>]

(***************************************************************************)
(* grpcWSGI.__call__ and what it calls directly.                           *)
(***************************************************************************)
RECURSIVE FirstService(_, _)
\* the loop of lines 49-52 over the generic handlers hs
FirstService(hs, path) ==
    IF hs = <<>> THEN <<>>
    ELSE IF Service(Head(hs), path) # <<>> THEN Service(Head(hs), path)
    ELSE FirstService(Tail(hs), path)

\* _get_rpc_handler(environ)
_get_rpc_handler(hs, e) == FirstService(hs, EnvGet(e, "PATH_INFO"))

\* preflight headers that do not allow any origin
CorsHeadersWithoutOrigin ==
    <<<<"Content-Type", "text/plain">>, <<"Content-Length", "0">>,
      <<"Access-Control-Allow-Methods", "POST, OPTIONS">>,
      <<"Access-Control-Allow-Headers", "*">>,
      <<"Access-Control-Allow-Credentials", "true">>,
      <<"Access-Control-Expose-Headers", "*">>>>

\* the headers of _do_cors_preflight
CorsPreflightHeaders ==
    <<<<"Content-Type", "text/plain">>, <<"Content-Length", "0">>,
      <<"Access-Control-Allow-Methods", "POST, OPTIONS">>,
      <<"Access-Control-Allow-Headers", "*">>,
      <<"Access-Control-Allow-Origin", "*">>,
      <<"Access-Control-Allow-Credentials", "true">>,
      <<"Access-Control-Expose-Headers", "*">>>>

\* an adapter that never hands a request to the downstream application
AnswerWithoutDownstream(app, method, request_method) ==
    IF method # <<>>
    THEN IF request_method = "OPTIONS"
         THEN [kind |-> "cors", status |-> "204 No Content",
               headers |-> CorsPreflightHeaders]
         ELSE [kind |-> "list", status |-> "400 Bad Request",
               headers |-> <<>>]
    ELSE [kind |-> "list", status |-> "404 Not Found", headers |-> <<>>]

\* what __call__ does with a request that starts no RPC: the status line
\* and headers it gives to start_response and the list it returns, or the
\* delegation to the downstream application
Answer(app, method, request_method) ==
    IF method # <<>>
    THEN IF request_method = "OPTIONS"
         THEN [kind |-> "cors", status |-> "204 No Content",
               headers |-> CorsPreflightHeaders]
         ELSE [kind |-> "list", status |-> "400 Bad Request",
               headers |-> <<>>]
    ELSE IF app # None
         THEN [kind |-> "downstream"]
         ELSE [kind |-> "list", status |-> "404 Not Found", headers |-> <<>>]

\* grpcWSGI.__call__(environ, start_response) for call c
Call(c, e, run) ==
    LET method == _get_rpc_handler(handlers, e)
        request_method == EnvGet(e, "REQUEST_METHOD")
        answer == Answer(application, method, request_method)
    IN  /\ pc[c] = "idle"
        /\ environ' = [environ EXCEPT ![c] = e]
        /\ behaviour' = [behaviour EXCEPT ![c] = run]
        /\ rpc_method' = [rpc_method EXCEPT ![c] = method]
        /\ IF method # <<>> /\ request_method = "POST"
           THEN \* the generator of _do_grpc_request, not yet started
                /\ result' = [result EXCEPT ![c] = [kind |-> "generator"]]
                /\ pc' = [pc EXCEPT ![c] = "read_request"]
                /\ UNCHANGED <<downstream, status, headers, log>>
           ELSE IF answer.kind = "downstream"
           THEN /\ downstream' =
                      [downstream EXCEPT ![c] = <<e, StartResponse(c)>>]
                /\ result' =
                      [result EXCEPT ![c] = Application(e, StartResponse(c))]
                /\ pc' = [pc EXCEPT ![c] = "done"]
                /\ log' = [log EXCEPT ![c] = Append(@, "application")]
                /\ UNCHANGED <<status, headers>>
           ELSE /\ status' = [status EXCEPT ![c] = answer.status]
                /\ headers' = [headers EXCEPT ![c] = answer.headers]
                /\ result' =
                      [result EXCEPT ![c] = [kind |-> "list", items |-> <<>>]]
                /\ pc' = [pc EXCEPT ![c] = "done"]
                /\ log' = [log EXCEPT ![c] = Append(@, "start_response")]
                /\ UNCHANGED downstream
    /\ UNCHANGED <<application, handlers, now, request_data, request_proto,
                   context, resp, ip, first_message, message, message_data,
                   trailer_data, body, error>>

(***************************************************************************)
(* grpcWSGI._do_grpc_request: the steps of the generator, which run when   *)
(* the server iterates over what __call__ returned.                        *)
(***************************************************************************)
\* an adapter that swallows the exception and ends the response
Swallow(c, exception) ==
    /\ pc' = [pc EXCEPT ![c] = "done"]
    /\ error' = error

\* an exception leaves the generator and reaches the server
Raise(c, exception) ==
    /\ pc' = [pc EXCEPT ![c] = "failed"]
    /\ error' = [error EXCEPT ![c] = exception]

\* line 75: request_data = self._read_request(environ)
ReadRequest(c) ==
    LET read == _read_request(environ[c])
    IN  /\ pc[c] = "read_request"
        /\ log' = [log EXCEPT ![c] = Append(@, "read")]
        /\ IF read.raises # None
           THEN /\ Raise(c, read.raises)
                /\ UNCHANGED request_data
           ELSE /\ request_data' = [request_data EXCEPT ![c] = read.data]
                /\ pc' = [pc EXCEPT ![c] = "create_context"]
                /\ UNCHANGED error
    /\ UNCHANGED <<application, handlers, now, environ, behaviour,
                   rpc_method, result, downstream, request_proto, context,
                   resp, ip, first_message, message, message_data,
                   trailer_data, status, headers, body>>

\* key[5:].lower().replace("_", "-") of lines 64-65
RECURSIVE HeaderName(_)
HeaderName(key) ==
    IF key = "" THEN ""
    ELSE (IF CharAt(key, 1) = "_" THEN "-" ELSE LowerChar(CharAt(key, 1)))
             \o HeaderName(Tail(key))

RECURSIVE InvocationMetadata(_)
\* the loop of lines 62-70 over environ.items(): one pair per HTTP_ key
\* (no header of the model carries the binary suffix)
InvocationMetadata(e) ==
    IF e = <<>> THEN <<>>
    ELSE LET key == Head(e)[1]
         IN  (IF Len(key) >= 5 /\ SubSeq(key, 1, 5) = "HTTP_"
              THEN <<<<HeaderName(SubSeq(key, 6, Len(key))), Head(e)[2]>>>>
              ELSE <<>>) \o InvocationMetadata(Tail(e))

\* lines 57-60: the timeout, <<>> for None; only the KeyError of a missing
\* header is caught
Timeout(e) ==
    IF EnvHas(e, "HTTP_GRPC_TIMEOUT")
    THEN LET parsed == parse_timeout(EnvGet(e, "HTTP_GRPC_TIMEOUT"))
         IN  IF parsed.raises # None THEN [raises |-> parsed.raises]
             ELSE [raises |-> None, timeout |-> <<parsed.value>>]
    ELSE [raises |-> None, timeout |-> <<>>]

\* an adapter that keeps the context of the call in progress in one place:
\* creating the context of a call replaces the context of every call
CreateSharedContext(c) ==
    LET parsed == Timeout(environ[c])
    IN  /\ pc[c] = "create_context"
        /\ IF parsed.raises # None
           THEN /\ Raise(c, parsed.raises)
                /\ UNCHANGED <<context, now, log>>
           ELSE /\ \E t \in now..MaxClock :
                      /\ parsed.timeout = <<>> => t = now
                      /\ now' = t
                      /\ context' =
                           [d \in Calls |->
                              ServicerContext(parsed.timeout,
                                  InvocationMetadata(environ[c]), t)]
                /\ pc' = [pc EXCEPT ![c] = "unwrap"]
                /\ log' = [log EXCEPT ![c] = Append(@, "context")]
                /\ UNCHANGED error
    /\ UNCHANGED <<application, handlers, environ, behaviour, rpc_method,
                   result, downstream, request_data, request_proto, resp,
                   ip, first_message, message, message_data, trailer_data,
                   status, headers, body>>

\* line 77: context = self._create_context(environ); the constructor reads
\* the clock when there is a timeout
CreateContext(c) ==
    LET parsed == Timeout(environ[c])
    IN  /\ pc[c] = "create_context"
        /\ IF parsed.raises # None
           THEN /\ Raise(c, parsed.raises)
                /\ UNCHANGED <<context, now, log>>
           ELSE /\ \E t \in now..MaxClock :
                      /\ parsed.timeout = <<>> => t = now
                      /\ now' = t
                      /\ context' =
                           [context EXCEPT ![c] =
                              ServicerContext(parsed.timeout,
                                  InvocationMetadata(environ[c]), t)]
                /\ pc' = [pc EXCEPT ![c] = "unwrap"]
                /\ log' = [log EXCEPT ![c] = Append(@, "context")]
                /\ UNCHANGED error
    /\ UNCHANGED <<application, handlers, environ, behaviour, rpc_method,
                   result, downstream, request_data, request_proto, resp,
                   ip, first_message, message, message_data, trailer_data,
                   status, headers, body>>

\* lines 79-80: unwrap the request frame and deserialize the message
Unwrap(c) ==
    LET frame == unwrap_message(request_data[c])
    IN  /\ pc[c] = "unwrap"
        /\ IF frame.raises # None
           THEN /\ Raise(c, frame.raises)
                /\ UNCHANGED request_proto
           ELSE /\ request_proto' =
                      [request_proto EXCEPT ![c] =
                          <<request_deserializer(frame.payload)>>]
                /\ pc' = [pc EXCEPT ![c] = "dispatch"]
                /\ UNCHANGED error
    /\ UNCHANGED <<application, handlers, now, environ, behaviour,
                   rpc_method, result, downstream, request_data, context,
                   resp, ip, first_message, message, message_data,
                   trailer_data, status, headers, body, log>>

\* a dispatch that looks at the response flag only
DispatchedByResponse(method) ==
    IF method.response_streaming THEN "unary_stream" ELSE "unary_unary"

\* the branch of lines 85-92 a method handler takes
Dispatched(method) ==
    IF ~method.request_streaming /\ ~method.response_streaming
    THEN "unary_unary"
    ELSE IF ~method.request_streaming /\ method.response_streaming
    THEN "unary_stream"
    ELSE "NotImplementedError"

\* lines 82-94: call the method's implementation. A unary implementation
\* runs from here; a server-streaming one returns its generator, which
\* line 90 wraps in _timeout_generator when the call has a deadline (the
\* test reads the clock); a request-streaming method is not implemented
Dispatch(c) ==
    LET method == rpc_method[c][1]
    IN  /\ pc[c] = "dispatch"
        /\ IF Dispatched(method) = "unary_unary"
           THEN /\ pc' = [pc EXCEPT ![c] = "handler"]
                /\ log' = [log EXCEPT ![c] = Append(@, "invoke")]
                /\ UNCHANGED <<resp, now, error>>
           ELSE IF Dispatched(method) = "unary_stream"
           THEN /\ \E t \in now..MaxClock :
                      /\ context[c]._deadline = <<>> => t = now
                      /\ now' = t
                      /\ resp' =
                           [resp EXCEPT ![c] =
                              [kind |-> "generator",
                               timeout |->
                                   time_remaining(context[c], t) # <<>>]]
                /\ pc' = [pc EXCEPT ![c] = "first_pull"]
                /\ log' = [log EXCEPT ![c] = Append(@, "invoke")]
                /\ UNCHANGED error
           ELSE /\ Raise(c, "NotImplementedError")
                /\ UNCHANGED <<resp, now, log>>
    /\ UNCHANGED <<application, handlers, environ, behaviour, rpc_method,
                   result, downstream, request_data, request_proto,
                   context, ip, first_message, message, message_data,
                   trailer_data, status, headers, body>>

(***************************************************************************)
(* The handler implementation: one operation of its run per step.          *)
(***************************************************************************)
\* the context after one of the context operations of a run
ContextOp(ctx, op) ==
    CASE op[1] = "set_code" -> set_code(ctx, op[2])
      [] op[1] = "set_details" -> set_details(ctx, op[2])
      [] op[1] = "send_initial_metadata" -> send_initial_metadata(ctx, op[2])
      [] op[1] = "set_trailing_metadata" -> set_trailing_metadata(ctx, op[2])

IsContextOp(op) ==
    op[1] \in {"set_code", "set_details", "send_initial_metadata",
               "set_trailing_metadata"}

\* line 86: rpc_method.unary_unary(request_proto, context) runs; the
\* RpcError of an abort is caught at line 93 and leaves resp as None
Handler(c) ==
    /\ pc[c] = "handler"
    /\ IF ip[c] > Len(behaviour[c])
       THEN \* the function ends: it returns None
            /\ resp' = [resp EXCEPT ![c] = [kind |-> "value", value |-> <<>>]]
            /\ pc' = [pc EXCEPT ![c] = "unary_response"]
            /\ log' = [log EXCEPT ![c] = Append(@, "return")]
            /\ UNCHANGED <<context, ip, error>>
       ELSE LET op == behaviour[c][ip[c]]
            IN  CASE IsContextOp(op) ->
                       /\ context' =
                            [context EXCEPT ![c] = ContextOp(@, op)]
                       /\ ip' = [ip EXCEPT ![c] = @ + 1]
                       /\ UNCHANGED <<resp, pc, error, log>>
                  [] op[1] = "return" ->
                       /\ resp' =
                            [resp EXCEPT ![c] =
                                [kind |-> "value", value |-> <<op[2]>>]]
                       /\ pc' = [pc EXCEPT ![c] = "unary_response"]
                       /\ log' = [log EXCEPT ![c] = Append(@, "return")]
                       /\ UNCHANGED <<context, ip, error>>
                  [] op[1] = "abort" ->
                       LET aborted == abort(context[c], op[2], op[3])
                       IN  /\ context' =
                                [context EXCEPT ![c] = aborted.context]
                           /\ IF aborted.raises = "RpcError"
                              THEN /\ pc' =
                                        [pc EXCEPT ![c] = "unary_response"]
                                   /\ UNCHANGED error
                              ELSE Raise(c, aborted.raises)
                           /\ log' = [log EXCEPT ![c] = Append(@, "abort")]
                           /\ UNCHANGED <<resp, ip>>
    /\ UNCHANGED <<application, handlers, now, environ, behaviour,
                   rpc_method, result, downstream, request_data,
                   request_proto, first_message, message, message_data,
                   trailer_data, status, headers, body>>

(***************************************************************************)
(* grpcWSGI._do_unary_response                                             *)
(***************************************************************************)
\* the headers of lines 96-100
ResponseHeaders ==
    <<<<"Content-Type", "application/grpc-web+proto">>,
      <<"Access-Control-Allow-Origin", "*">>,
      <<"Access-Control-Expose-Headers", "*">>>>

\* lines 151-156: the message frame, or b"" when resp is falsy
UnaryMessageData(r) ==
    IF r.kind = "value" /\ TruthyValue(r.value)
    THEN wrap_message(FALSE, FALSE, response_serializer(r.value[1]))
    ELSE <<>>

\* a trailer frame whether or not there is trailing metadata
UnaryTrailerAlways(ctx) ==
    wrap_message(TRUE, FALSE,
        pack_trailers(encode_headers(ctx._trailing_metadata)))

\* lines 158-163: the trailer frame, or b"" without trailing metadata
UnaryTrailerData(ctx) ==
    IF ctx._trailing_metadata # <<>>
    THEN wrap_message(TRUE, FALSE,
             pack_trailers(encode_headers(ctx._trailing_metadata)))
    ELSE <<>>

\* lines 165-175: the headers of a unary response
UnaryHeaders(ctx, content_length) ==
    ResponseHeaders
        \o <<<<"content-length", Str(content_length)>>>>
        \o <<<<"grpc-status", Str(StatusValue[ctx.code])>>>>
        \o (IF TruthyText(ctx.details)
            THEN <<<<"grpc-message", quote(ctx.details)>>>> ELSE <<>>)
        \o (IF ctx._initial_metadata # <<>>
            THEN encode_headers(ctx._initial_metadata) ELSE <<>>)

\* a unary response that builds its frames and never calls start_response
UnaryWithoutHeaders(c) ==
    /\ pc[c] = "unary_response"
    /\ message_data' =
         [message_data EXCEPT ![c] = UnaryMessageData(resp[c])]
    /\ trailer_data' =
         [trailer_data EXCEPT ![c] = UnaryTrailerData(context[c])]
    /\ pc' = [pc EXCEPT ![c] = "unary_message"]
    /\ UNCHANGED <<application, handlers, now, environ, behaviour,
                   rpc_method, result, downstream, request_data,
                   request_proto, context, resp, ip, first_message,
                   message, status, headers, body, error, log>>

\* lines 150-177: build both frames and the headers, call start_response
UnaryResponse(c) ==
    LET md == UnaryMessageData(resp[c])
        td == UnaryTrailerData(context[c])
    IN  /\ pc[c] = "unary_response"
        /\ message_data' = [message_data EXCEPT ![c] = md]
        /\ trailer_data' = [trailer_data EXCEPT ![c] = td]
        /\ headers' =
             [headers EXCEPT ![c] = UnaryHeaders(context[c], Len(md) + Len(td))]
        /\ status' =
             [status EXCEPT ![c] = _grpc_status_to_wsgi_status(context[c].code)]
        /\ log' = [log EXCEPT ![c] = Append(@, "start_response")]
        /\ pc' = [pc EXCEPT ![c] = "unary_message"]
    /\ UNCHANGED <<application, handlers, now, environ, behaviour,
                   rpc_method, result, downstream, request_data,
                   request_proto, context, resp, ip, first_message,
                   message, body, error>>

\* line 178: yield message_data
UnaryMessage(c) ==
    /\ pc[c] = "unary_message"
    /\ body' = [body EXCEPT ![c] = Append(@, message_data[c])]
    /\ log' = [log EXCEPT ![c] = Append(@, "chunk")]
    /\ pc' = [pc EXCEPT ![c] = "unary_trailer"]
    /\ UNCHANGED <<application, handlers, now, environ, behaviour,
                   rpc_method, result, downstream, request_data,
                   request_proto, context, resp, ip, first_message,
                   message, message_data, trailer_data, status, headers,
                   error>>

\* line 179: yield trailer_data, after which the generator is exhausted
UnaryTrailer(c) ==
    /\ pc[c] = "unary_trailer"
    /\ body' = [body EXCEPT ![c] = Append(@, trailer_data[c])]
    /\ log' = [log EXCEPT ![c] = Append(@, "chunk")]
    /\ pc' = [pc EXCEPT ![c] = "done"]
    /\ UNCHANGED <<application, handlers, now, environ, behaviour,
                   rpc_method, result, downstream, request_data,
                   request_proto, context, resp, ip, first_message,
                   message, message_data, trailer_data, status, headers,
                   error>>

(***************************************************************************)
(* grpcWSGI._do_streaming_response and _timeout_generator                  *)
(***************************************************************************)
\* the details _timeout_generator sets
TimeoutDetails == "request timed out at the server"

\* where a pull that raised grpc.RpcError goes on: line 121 after the
\* first pull (lines 118-119), line 138 after a later one (lines 135-136)
AfterRpcError(at) == IF at = "first" THEN "stream_headers" ELSE "trailers"

\* which pull the call is in
PullOf(p) == IF p \in {"first_pull", "first_run"} THEN "first" ELSE "next"

\* lines 117 and 131: next(resp). With a deadline resp is the
\* _timeout_generator, whose line 359 reads the clock before it resumes the
\* handler's generator; at zero it sets the status and raises (362-364)
Pull(c) ==
    /\ pc[c] \in {"first_pull", "next_pull"}
    /\ IF resp[c].timeout
       THEN \E t \in now..MaxClock :
              /\ now' = t
              /\ IF time_remaining(context[c], t)[1] > 0
                 THEN /\ pc' = [pc EXCEPT ![c] =
                                  IF PullOf(@) = "first" THEN "first_run"
                                  ELSE "next_run"]
                      /\ log' = [log EXCEPT ![c] = @ \o <<"check", "next">>]
                      /\ UNCHANGED context
                 ELSE /\ context' =
                           [context EXCEPT ![c] =
                               [@ EXCEPT !.code = "DEADLINE_EXCEEDED",
                                         !.details = TimeoutDetails]]
                      /\ pc' = [pc EXCEPT ![c] = AfterRpcError(PullOf(@))]
                      /\ log' = [log EXCEPT ![c] = @ \o <<"check", "expired">>]
       ELSE /\ pc' = [pc EXCEPT ![c] =
                        IF PullOf(@) = "first" THEN "first_run" ELSE "next_run"]
            /\ log' = [log EXCEPT ![c] = Append(@, "next")]
            /\ UNCHANGED <<now, context>>
    /\ UNCHANGED <<application, handlers, environ, behaviour, rpc_method,
                   result, downstream, request_data, request_proto, resp,
                   ip, first_message, message, message_data, trailer_data,
                   status, headers, body, error>>

\* the handler's generator runs up to its next yield, its abort or its end.
\* Its end is a StopIteration: in the for loop of line 131 it ends the
\* loop, but at line 117 and at line 360 it is raised inside a generator and
\* becomes a RuntimeError
Generator(c) ==
    /\ pc[c] \in {"first_run", "next_run"}
    /\ IF ip[c] > Len(behaviour[c])
       THEN /\ IF resp[c].timeout \/ PullOf(pc[c]) = "first"
               THEN Raise(c, "RuntimeError")
               ELSE /\ pc' = [pc EXCEPT ![c] = "trailers"]
                    /\ UNCHANGED error
            /\ log' = [log EXCEPT ![c] = Append(@, "stop")]
            /\ UNCHANGED <<context, ip, first_message, message>>
       ELSE LET op == behaviour[c][ip[c]]
            IN  CASE IsContextOp(op) ->
                       /\ context' =
                            [context EXCEPT ![c] = ContextOp(@, op)]
                       /\ ip' = [ip EXCEPT ![c] = @ + 1]
                       /\ UNCHANGED <<pc, error, first_message, message, log>>
                  [] op[1] = "yield" ->
                       /\ ip' = [ip EXCEPT ![c] = @ + 1]
                       /\ IF PullOf(pc[c]) = "first"
                          THEN /\ first_message' =
                                    [first_message EXCEPT ![c] = <<op[2]>>]
                               /\ pc' = [pc EXCEPT ![c] = "stream_headers"]
                               /\ UNCHANGED message
                          ELSE /\ message' =
                                    [message EXCEPT ![c] = <<op[2]>>]
                               /\ pc' = [pc EXCEPT ![c] = "frame"]
                               /\ UNCHANGED first_message
                       /\ log' = [log EXCEPT ![c] = Append(@, "yield")]
                       /\ UNCHANGED <<context, error>>
                  [] op[1] = "abort" ->
                       LET aborted == abort(context[c], op[2], op[3])
                       IN  /\ context' =
                                [context EXCEPT ![c] = aborted.context]
                           /\ IF aborted.raises = "RpcError"
                              THEN /\ pc' = [pc EXCEPT ![c] =
                                               AfterRpcError(PullOf(@))]
                                   /\ UNCHANGED error
                              ELSE Raise(c, aborted.raises)
                           /\ log' = [log EXCEPT ![c] = Append(@, "abort")]
                           /\ UNCHANGED <<ip, first_message, message>>
    /\ UNCHANGED <<application, handlers, now, environ, behaviour,
                   rpc_method, result, downstream, request_data,
                   request_proto, resp, message_data, trailer_data, status,
                   headers, body>>

\* lines 121-122: the headers of a streaming response
StreamHeaders(ctx) ==
    ResponseHeaders
        \o (IF ctx._initial_metadata # <<>>
            THEN encode_headers(ctx._initial_metadata) ELSE <<>>)

\* the status line of line 124
StreamStatus(ctx) == _grpc_status_to_wsgi_status(ctx.code)

\* lines 121-124: call start_response
StreamStart(c) ==
    /\ pc[c] = "stream_headers"
    /\ headers' = [headers EXCEPT ![c] = StreamHeaders(context[c])]
    /\ status' = [status EXCEPT ![c] = StreamStatus(context[c])]
    /\ log' = [log EXCEPT ![c] = Append(@, "start_response")]
    /\ pc' = [pc EXCEPT ![c] = "first_frame"]
    /\ UNCHANGED <<application, handlers, now, environ, behaviour,
                   rpc_method, result, downstream, request_data,
                   request_proto, context, resp, ip, first_message,
                   message, message_data, trailer_data, body, error>>

\* lines 126-128: yield the frame of first_message, which is unbound when
\* the first pull raised grpc.RpcError
FirstFrame(c) ==
    /\ pc[c] = "first_frame"
    /\ IF first_message[c] = <<>>
       THEN /\ Raise(c, "UnboundLocalError")
            /\ UNCHANGED <<body, log>>
       ELSE /\ body' =
                 [body EXCEPT ![c] =
                     Append(@, wrap_message(FALSE, FALSE,
                                   response_serializer(first_message[c][1])))]
            /\ log' = [log EXCEPT ![c] = Append(@, "chunk")]
            /\ pc' = [pc EXCEPT ![c] = "next_pull"]
            /\ UNCHANGED error
    /\ UNCHANGED <<application, handlers, now, environ, behaviour,
                   rpc_method, result, downstream, request_data,
                   request_proto, context, resp, ip, first_message,
                   message, message_data, trailer_data, status, headers>>

\* lines 132-134: yield the frame of message
Frame(c) ==
    /\ pc[c] = "frame"
    /\ body' =
         [body EXCEPT ![c] =
             Append(@, wrap_message(FALSE, FALSE,
                           response_serializer(message[c][1])))]
    /\ log' = [log EXCEPT ![c] = Append(@, "chunk")]
    /\ pc' = [pc EXCEPT ![c] = "next_pull"]
    /\ UNCHANGED <<application, handlers, now, environ, behaviour,
                   rpc_method, result, downstream, request_data,
                   request_proto, context, resp, ip, first_message,
                   message, message_data, trailer_data, status, headers,
                   error>>

\* trailers with the trailing metadata ahead of the status
StreamTrailersMetadataFirst(ctx) ==
    (IF ctx._trailing_metadata # <<>>
     THEN encode_headers(ctx._trailing_metadata) ELSE <<>>)
        \o <<<<"grpc-status", Str(StatusValue[ctx.code])>>>>
        \o (IF TruthyText(ctx.details)
            THEN <<<<"grpc-message", quote(ctx.details)>>>> ELSE <<>>)

\* lines 138-144: the trailers of a streaming response
StreamTrailers(ctx) ==
    <<<<"grpc-status", Str(StatusValue[ctx.code])>>>>
        \o (IF TruthyText(ctx.details)
            THEN <<<<"grpc-message", quote(ctx.details)>>>> ELSE <<>>)
        \o (IF ctx._trailing_metadata # <<>>
            THEN encode_headers(ctx._trailing_metadata) ELSE <<>>)

\* lines 138-148: yield the trailer frame, after which the generator is
\* exhausted
Trailers(c) ==
    /\ pc[c] = "trailers"
    /\ body' =
         [body EXCEPT ![c] =
             Append(@, wrap_message(TRUE, FALSE,
                           pack_trailers(StreamTrailers(context[c]))))]
    /\ log' = [log EXCEPT ![c] = Append(@, "chunk")]
    /\ pc' = [pc EXCEPT ![c] = "done"]
    /\ UNCHANGED <<application, handlers, now, environ, behaviour,
                   rpc_method, result, downstream, request_data,
                   request_proto, context, resp, ip, first_message,
                   message, message_data, trailer_data, status, headers,
                   error>>

(***************************************************************************)
(* The specification of one call.                                          *)
(***************************************************************************)
\* the server calls the application object with the request of call c
Arrive(c) ==
    /\ pc[c] = "idle"
    /\ \E input \in Inputs(application) : Call(c, input[1], input[2])

Next ==
    \/ Arrive(1)
    \/ \E c \in Calls :
          \/ ReadRequest(c)
          \/ CreateContext(c)
          \/ Unwrap(c)
          \/ Dispatch(c)
          \/ Handler(c)
          \/ UnaryResponse(c)
          \/ UnaryMessage(c)
          \/ UnaryTrailer(c)
          \/ Pull(c)
          \/ Generator(c)
          \/ StreamStart(c)
          \/ FirstFrame(c)
          \/ Frame(c)
          \/ Trailers(c)

Spec == Init /\ [][Next]_vars

(***************************************************************************)
(* What the formulas below observe of a call.                              *)
(***************************************************************************)
RECURSIVE Frames(_)
\* the frames a client decodes from the bytes of a response body; a frame
\* that is cut ends the sequence with its error
Frames(bytes) ==
    IF bytes = <<>> THEN <<>>
    ELSE LET frame == unwrap_message(bytes)
         IN  IF frame.raises # None THEN <<frame>>
             ELSE <<frame>>
                      \o Frames(SubSeq(bytes, 6 + Len(frame.payload),
                                       Len(bytes)))

\* the frames of the body call c has produced so far
ResponseFrames(c) == Frames(Concat(body[c]))

\* the message frame of a value
MessageFrame(value) ==
    [raises |-> None, trailers |-> FALSE, compressed |-> FALSE,
     payload |-> <<value>>]

IsMessageFrame(frame) == frame.raises = None /\ ~frame.trailers

IsTrailerFrame(frame) == frame.raises = None /\ frame.trailers

RECURSIVE TrailerLines(_)
\* the lines of a trailer block, without their CRLF
TrailerLines(payload) ==
    LET ends == {i \in 1..(Len(payload) - 1) :
                    payload[i] = 13 /\ payload[i + 1] = 10}
    IN  IF payload = <<>> THEN <<>>
        ELSE IF ends = {} THEN <<payload>>
        ELSE LET e == CHOOSE i \in ends : \A j \in ends : i <= j
             IN  <<SubSeq(payload, 1, e - 1)>>
                     \o TrailerLines(SubSeq(payload, e + 2, Len(payload)))

\* the values of the response headers with this name, in order
HeaderValues(hs, name) ==
    LET at == SelectSeq(hs, LAMBDA h : h[1] = name)
    IN  [i \in 1..Len(at) |-> at[i][2]]

\* whether call c has done this
Did(c, event) == \E i \in 1..Len(log[c]) : log[c][i] = event

\* how often call c has done this
Count(c, event) == Cardinality({i \in 1..Len(log[c]) : log[c][i] = event})

\* the call has ended: its generator is exhausted or an exception left it
Ended(c) == pc[c] \in {"done", "failed"}

RequestMethod(c) == EnvGet(environ[c], "REQUEST_METHOD")

RequestPath(c) == EnvGet(environ[c], "PATH_INFO")

\* the paths some registered service resolves
RegisteredPaths == {"/u", "/s", "/c", "/b"}

\* the values a run yields, in order
YieldedValues(run) ==
    LET yields == SelectSeq(run, LAMBDA op : op[1] = "yield")
    IN  [i \in 1..Len(yields) |-> yields[i][2]]

\* the run never sets the status code
StatusUntouched(run) ==
    \A i \in 1..Len(run) : run[i][1] \notin {"set_code", "abort"}

\* the run sets trailing metadata
SetsTrailingMetadata(run) ==
    \E i \in 1..Len(run) : run[i][1] = "set_trailing_metadata"

\* the handler of call c has aborted with a code other than OK; the abort
\* is the operation the run stopped at
AbortedNotOk(c) ==
    /\ Did(c, "abort")
    /\ behaviour[c][ip[c]][2] # "OK"

AbortCode(c) == behaviour[c][ip[c]][2]

AbortDetails(c) == behaviour[c][ip[c]][3]

\* a POST to a registered server-streaming method
ServerStreamingCall(c) ==
    RequestMethod(c) = "POST" /\ rpc_method[c] = <<UnaryStream>>

\* a POST to a registered unary method
UnaryCall(c) == RequestMethod(c) = "POST" /\ rpc_method[c] = <<UnaryUnary>>

\* the status lines of the fixed mapping, for the codes a handler aborts
\* with
MappedStatusLine(code) ==
    CASE code = "OK" -> "200 OK"
      [] code \in {"UNKNOWN", "INTERNAL"} -> "500 Internal Server Error"
      [] code = "UNAVAILABLE" -> "503 Service Unavailable"
      [] code = "INVALID_ARGUMENT" -> "400 Bad Request"
      [] code = "UNIMPLEMENTED" -> "404 Not Found"
      [] code = "PERMISSION_DENIED" -> "403 Forbidden"
      [] OTHER -> "500 Internal Server Error"

(***************************************************************************)
(* C1                                                                      *)
(***************************************************************************)
\* C1: a server-streaming call whose handler yields n >= 0 values and
\* completes normally without changing the status ends with a body of
\* exactly the n message frames, in yield order, and one last trailer frame
\* with grpc-status 0.
C1_StreamEndsWithOkTrailer ==
    \A c \in Calls :
        (/\ ServerStreamingCall(c)
         /\ StatusUntouched(behaviour[c])
         /\ Did(c, "stop")
         /\ Ended(c))
        => LET frames == ResponseFrames(c)
               values == YieldedValues(behaviour[c])
               n == Len(values)
           IN  /\ pc[c] = "done"
               /\ Len(frames) = n + 1
               /\ \A i \in 1..n : frames[i] = MessageFrame(values[i])
               /\ IsTrailerFrame(frames[n + 1])
               /\ \E i \in 1..Len(TrailerLines(frames[n + 1].payload)) :
                      TrailerLines(frames[n + 1].payload)[i]
                          = Encode("grpc-status: 0")

(***************************************************************************)
(* C2                                                                      *)
(***************************************************************************)
\* C2: in a server-streaming call with a deadline every pull of a handler
\* value directly follows a deadline check; once a check finds no time
\* left, no value is pulled or emitted any more and the response ends with
\* exactly one trailer frame, the last frame, with grpc-status 4
\* (DEADLINE_EXCEEDED) and the grpc-message of the timeout.
C2_DeadlineEndsStreamWithTrailer ==
    \A c \in Calls :
        (ServerStreamingCall(c) /\ context[c].created
            /\ context[c]._deadline # <<>>)
        => /\ \A i \in 1..Len(log[c]) :
                  log[c][i] = "next" => (i > 1 /\ log[c][i - 1] = "check")
           /\ \A i \in 1..Len(log[c]) :
                  log[c][i] = "expired"
                  => \A j \in (i + 1)..Len(log[c]) :
                         log[c][j] \notin {"next", "yield"}
           /\ (Did(c, "expired") /\ Ended(c))
              => LET frames == ResponseFrames(c)
                     n == Len(frames)
                 IN  /\ pc[c] = "done"
                     /\ n = Count(c, "yield") + 1
                     /\ \A i \in 1..(n - 1) : IsMessageFrame(frames[i])
                     /\ IsTrailerFrame(frames[n])
                     /\ SubSeq(TrailerLines(frames[n].payload), 1, 2)
                          = <<Encode("grpc-status: 4"),
                              Encode("grpc-message: "
                                 \o "request%20timed%20out%20at%20the%20server")>>

(***************************************************************************)
(* C3                                                                      *)
(***************************************************************************)
\* C3: when the handler of a server-streaming call aborts with a code other
\* than OK before it yields a value, no exception reaches the server: the
\* headers are committed without a grpc-status header, and the body is one
\* trailer frame with the grpc-status of the abort and no message frame.
C3_AbortBeforeFirstValue ==
    \A c \in Calls :
        (ServerStreamingCall(c) /\ AbortedNotOk(c) /\ ~Did(c, "yield"))
        => /\ error[c] = None
           /\ Ended(c)
              => LET frames == ResponseFrames(c)
                 IN  /\ pc[c] = "done"
                     /\ Count(c, "start_response") = 1
                     /\ HeaderValues(headers[c], "grpc-status") = <<>>
                     /\ Len(frames) = 1
                     /\ IsTrailerFrame(frames[1])
                     /\ TrailerLines(frames[1].payload)[1]
                          = Encode("grpc-status: "
                                \o Str(StatusValue[AbortCode(c)]))

(***************************************************************************)
(* C4                                                                      *)
(***************************************************************************)
\* the value a run returns with its return statement, if it has one
ReturnedValues(run) ==
    LET returns == SelectSeq(run, LAMBDA op : op[1] = "return")
    IN  [i \in 1..Len(returns) |-> returns[i][2]]

\* C4: a unary call whose handler returns a value and leaves the status
\* untouched answers with exactly one message frame, the serialized value,
\* and one trailer segment (a trailer frame, or nothing); its headers hold
\* grpc-status 0 and a content-length equal to the number of body bytes.
C4_UnaryReturnOneMessageFrame ==
    \A c \in Calls :
        (/\ UnaryCall(c)
         /\ ReturnedValues(behaviour[c]) # <<>>
         /\ StatusUntouched(behaviour[c])
         /\ pc[c] = "done")
        => /\ Len(body[c]) = 2
           /\ Frames(body[c][1])
                = <<MessageFrame(ReturnedValues(behaviour[c])[1])>>
           /\ \/ body[c][2] = <<>>
              \/ /\ Len(Frames(body[c][2])) = 1
                 /\ IsTrailerFrame(Frames(body[c][2])[1])
           /\ HeaderValues(headers[c], "grpc-status") = <<"0">>
           /\ HeaderValues(headers[c], "content-length")
                = <<Str(Len(Concat(body[c])))>>

(***************************************************************************)
(* C5                                                                      *)
(***************************************************************************)
\* the text of the status numbers of the codes a handler aborts with
AbortStatusText(code) ==
    CASE code = "INVALID_ARGUMENT" -> "3"
      [] code = "UNAVAILABLE" -> "14"

\* the grpc-message headers that report the details of an abort
AbortMessageHeaders(details) ==
    CASE details = "a b" -> <<"a%20b">>
      [] details = "" -> <<>>

\* the trailer lines that report the trailing metadata of a run
TrailingMetadataLines(run) ==
    IF SetsTrailingMetadata(run)
    THEN <<Encode("k: v"), Encode("x: y")>> ELSE <<>>

\* C5: when the handler of a unary call aborts with a code other than OK,
\* no exception reaches the server; the response has the status line the
\* code maps to, a grpc-status header with the number of the code, the
\* details of the abort as its grpc-message, no message frame, and the
\* trailing metadata set before the abort in its trailer frame.
C5_UnaryAbortAbsorbed ==
    \A c \in Calls :
        (UnaryCall(c) /\ AbortedNotOk(c))
        => /\ error[c] = None
           /\ pc[c] # "failed"
           /\ Did(c, "start_response")
              => /\ status[c] = MappedStatusLine(AbortCode(c))
                 /\ HeaderValues(headers[c], "grpc-status")
                      = <<AbortStatusText(AbortCode(c))>>
                 /\ HeaderValues(headers[c], "grpc-message")
                      = AbortMessageHeaders(AbortDetails(c))
           /\ pc[c] = "done"
              => LET frames == ResponseFrames(c)
                 IN  /\ body[c][1] = <<>>
                     /\ \A i \in 1..Len(frames) : ~IsMessageFrame(frames[i])
                     /\ IF SetsTrailingMetadata(behaviour[c])
                        THEN /\ Len(frames) = 1
                             /\ IsTrailerFrame(frames[1])
                             /\ TrailerLines(frames[1].payload)
                                  = TrailingMetadataLines(behaviour[c])
                        ELSE frames = <<>>

\* a unary call has ended after its handler set trailing metadata and
\* aborted with details
C5_Witness ==
    \E c \in Calls :
        /\ UnaryCall(c)
        /\ AbortedNotOk(c)
        /\ AbortDetails(c) = "a b"
        /\ SetsTrailingMetadata(behaviour[c])
        /\ pc[c] = "done"
        /\ status[c] = "400 Bad Request"

C7_UnregisteredPath ==
    \A c \in Calls :
        (pc[c] # "idle" /\ RequestPath(c) \notin RegisteredPaths)
        => /\ pc[c] = "done"
           /\ context[c] = NoContext
           /\ ~Did(c, "invoke")
           /\ ~Did(c, "read")
           /\ body[c] = <<>>
           /\ IF application = None
              THEN /\ status[c] = "404 Not Found"
                   /\ headers[c] = <<>>
                   /\ result[c] = [kind |-> "list", items |-> <<>>]
                   /\ downstream[c] = <<>>
              ELSE /\ downstream[c] = <<environ[c], StartResponse(c)>>
                   /\ result[c] = Application(environ[c], StartResponse(c))
                   /\ status[c] = None
                   /\ ~Did(c, "start_response")

\* a POST to an unregistered path has been handed to the downstream
\* application
C7_Witness ==
    \E c \in Calls :
        /\ RequestPath(c) = "/x"
        /\ RequestMethod(c) = "POST"
        /\ application # None
        /\ Did(c, "application")
        /\ pc[c] = "done"

(***************************************************************************)
(* C8                                                                      *)
(***************************************************************************)
\* C8: an OPTIONS request to a registered path, whatever the streaming
\* flags of its method, is answered "204 No Content" with the fixed CORS
\* headers and an empty body; no context is created, the request body is
\* not read and the handler is not invoked.
C8_CorsPreflight ==
    \A c \in Calls :
        (/\ pc[c] # "idle"
         /\ RequestMethod(c) = "OPTIONS"
         /\ RequestPath(c) \in RegisteredPaths)
        => /\ pc[c] = "done"
           /\ status[c] = "204 No Content"
           /\ headers[c]
                = <<<<"Content-Type", "text/plain">>,
                    <<"Content-Length", "0">>,
                    <<"Access-Control-Allow-Methods", "POST, OPTIONS">>,
                    <<"Access-Control-Allow-Headers", "*">>,
                    <<"Access-Control-Allow-Origin", "*">>,
                    <<"Access-Control-Allow-Credentials", "true">>,
                    <<"Access-Control-Expose-Headers", "*">>>>
           /\ result[c] = [kind |-> "list", items |-> <<>>]
           /\ body[c] = <<>>
           /\ downstream[c] = <<>>
           /\ context[c] = NoContext
           /\ ~Did(c, "read")
           /\ ~Did(c, "invoke")

\* a preflight request to the bidirectional method has been answered
C8_Witness ==
    \E c \in Calls :
        /\ RequestMethod(c) = "OPTIONS"
        /\ RequestPath(c) = "/b"
        /\ rpc_method[c] = <<StreamStream>>
        /\ pc[c] = "done"
        /\ status[c] = "204 No Content"

(***************************************************************************)
(* C9                                                                      *)
(***************************************************************************)
\* a POST to a registered method that streams its requests
RequestStreamingCall(c) ==
    /\ RequestMethod(c) = "POST"
    /\ rpc_method[c] \in {<<StreamUnary>>, <<StreamStream>>}

\* C9: a POST to a registered client-streaming or bidirectional method
\* never invokes the handler, never calls start_response and never emits a
\* body chunk, and it never ends normally: once its request has been read,
\* its context created and its message decoded, it fails with
\* NotImplementedError, which reaches the server.
C9_RequestStreamingNotSupported ==
    \A c \in Calls :
        RequestStreamingCall(c)
        => /\ ~Did(c, "invoke")
           /\ ~Did(c, "start_response")
           /\ status[c] = None
           /\ headers[c] = <<>>
           /\ body[c] = <<>>
           /\ pc[c] # "done"
           /\ pc[c] \in {"read_request", "create_context", "unwrap",
                         "dispatch", "failed"}
           /\ (request_proto[c] # <<>> /\ pc[c] # "dispatch")
              => /\ pc[c] = "failed"
                 /\ error[c] = "NotImplementedError"

\* a POST to the bidirectional method has failed as not implemented
C9_Witness ==
    \E c \in Calls :
        /\ RequestStreamingCall(c)
        /\ rpc_method[c] = <<StreamStream>>
        /\ pc[c] = "failed"
        /\ error[c] = "NotImplementedError"

(***************************************************************************)
(* C10                                                                     *)
(***************************************************************************)
\* the request of call c carries a grpc-timeout header that parse_timeout
\* fails on
MalformedTimeout(c) ==
    /\ EnvHas(environ[c], "HTTP_GRPC_TIMEOUT")
    /\ parse_timeout(EnvGet(environ[c], "HTTP_GRPC_TIMEOUT")).raises # None

\* C10: when the grpc-timeout header of a call is malformed, creating the
\* context does not fail: once the request has been read the call goes on
\* with a context without a deadline, whose time_remaining is None, and no
\* ValueError reaches the server.
C10_MalformedTimeoutIsNoDeadline ==
    \A c \in Calls :
        (/\ RequestMethod(c) = "POST"
         /\ rpc_method[c] # <<>>
         /\ MalformedTimeout(c)
         /\ request_data[c] # <<>>
         /\ pc[c] # "create_context")
        => /\ context[c] # NoContext
           /\ context[c]._deadline = <<>>
           /\ time_remaining(context[c], now) = <<>>
           /\ error[c] # "ValueError"

(***************************************************************************)
(* C11                                                                     *)
(***************************************************************************)
\* call c takes a step in which its handler calls context.abort
AbortStep(c) == Count(c, "abort")' = Count(c, "abort") + 1

\* C11: context.abort(code, details) with the code OK raises ValueError,
\* which is no call-aborted signal (nothing catches it: the call fails with
\* it), and leaves the code and the details of the context as they were;
\* with another code it sets the code and the details to the ones given and
\* raises the call-aborted signal, which ends the run of the handler and is
\* caught by the adapter.
C11_Abort ==
    [][\A c \in Calls :
          AbortStep(c)
          => LET op == behaviour[c][ip[c]]
             IN  /\ op[1] = "abort"
                 /\ ip'[c] = ip[c]
                 /\ context'[c]._initial_metadata
                      = context[c]._initial_metadata
                 /\ context'[c]._trailing_metadata
                      = context[c]._trailing_metadata
                 /\ IF op[2] = "OK"
                    THEN /\ context'[c].code = context[c].code
                         /\ context'[c].details = context[c].details
                         /\ error'[c] = "ValueError"
                         /\ pc'[c] = "failed"
                    ELSE /\ context'[c].code = op[2]
                         /\ context'[c].details = op[3]
                         /\ error'[c] = None
                         /\ pc'[c] \in {"unary_response", "stream_headers",
                                        "trailers"}]_vars

\* a handler that had set a code and details has called abort with OK, and
\* the call has failed with the code and details it had set
C11_Witness ==
    \E c \in Calls :
        /\ Did(c, "abort")
        /\ behaviour[c][ip[c]][2] = "OK"
        /\ error[c] = "ValueError"
        /\ context[c].code = "INVALID_ARGUMENT"
        /\ context[c].details = "a b"

(***************************************************************************)
(* C12                                                                     *)
(***************************************************************************)
\* the payloads of these chunks
Payloads(chunks) == [i \in 1..Len(chunks) |-> chunks[i][1]]

\* the request of call c is chunked and its body is this stream
ChunkedRequest(c, stream) ==
    /\ RequestMethod(c) = "POST"
    /\ rpc_method[c] # <<>>
    /\ EnvGet(environ[c], "HTTP_TRANSFER_ENCODING") = "chunked"
    /\ EnvGet(environ[c], "wsgi.input") = stream

\* C12: from a well-formed chunked body (chunks of a hexadecimal size
\* line, that many payload bytes and a CRLF, then a chunk of size zero) the
\* request reader returns the payloads of the chunks joined in order,
\* without the CRLF of any chunk and without anything after the chunk of
\* size zero.
C12_ChunkedBodyReassembled ==
    \A c \in Calls :
        (/\ Did(c, "read")
         /\ RequestMethod(c) = "POST"
         /\ EnvGet(environ[c], "HTTP_TRANSFER_ENCODING") = "chunked"
         /\ ~MalformedTimeout(c))
        => \A chunks \in ChunkLists :
               ChunkedRequest(c, ChunkedBody(chunks))
               => /\ request_data[c] = Concat(Payloads(chunks))
                  /\ pc[c] = "failed" => Did(c, "context")

\* a body of two chunks, the second with a chunk extension and a payload
\* of CR and LF bytes, has been read
C12_Witness ==
    \E c \in Calls :
        /\ ChunkedRequest(c, ChunkedBody(<<<<RequestFrame, "lower">>,
                                 <<<<13, 10, 48, 13, 10>>, "extension">>>>))
        /\ Did(c, "read")
        /\ request_data[c] = RequestFrame \o <<13, 10, 48, 13, 10>>

(***************************************************************************)
(* C13                                                                     *)
(***************************************************************************)
\* call c is a POST to a registered method that has run line 75
RequestWasRead(c) ==
    RequestMethod(c) = "POST" /\ rpc_method[c] # <<>> /\ Did(c, "read")

\* nothing of a response exists for call c and its handler was not invoked
NothingCommitted(c) ==
    /\ ~Did(c, "start_response")
    /\ ~Did(c, "invoke")
    /\ ~Did(c, "chunk")
    /\ status[c] = None
    /\ headers[c] = <<>>
    /\ body[c] = <<>>

\* C13: when reading the request body fails (a chunk size that is no
\* hexadecimal number), or when unwrapping the request frame fails with a
\* framing error, the call stops there with that error reaching the
\* server: start_response has not been called, no body chunk exists and
\* the handler has not been invoked.
C13_RequestFailureBeforeResponse ==
    \A c \in Calls :
        /\ (RequestWasRead(c) /\ _read_request(environ[c]).raises # None)
           => /\ pc[c] = "failed"
              /\ error[c] = _read_request(environ[c]).raises
              /\ ~Did(c, "context")
              /\ NothingCommitted(c)
        /\ (/\ RequestWasRead(c)
            /\ Did(c, "context")
            /\ pc[c] # "unwrap"
            /\ unwrap_message(request_data[c]).raises # None)
           => /\ pc[c] = "failed"
              /\ error[c] = "FramingError"
              /\ NothingCommitted(c)

\* a call whose chunk size is no hexadecimal number has failed
C13_Witness ==
    \E c \in Calls :
        /\ RequestWasRead(c)
        /\ EnvGet(environ[c], "HTTP_TRANSFER_ENCODING") = "chunked"
        /\ _read_request(environ[c]).raises = "ValueError"
        /\ pc[c] = "failed"
        /\ error[c] = "ValueError"

(***************************************************************************)
(* C14                                                                     *)
(***************************************************************************)
\* C14: in a server-streaming call whose stream has started (its first
\* value was pulled and start_response was called) the status line is
\* "200 OK" whatever code the handler has set, and no grpc-status is among
\* the headers.
C14_StreamStatusLineOk ==
    \A c \in Calls :
        (/\ ServerStreamingCall(c)
         /\ Did(c, "yield")
         /\ Did(c, "start_response"))
        => /\ status[c] = "200 OK"
           /\ HeaderValues(headers[c], "grpc-status") = <<>>

(***************************************************************************)
(* C15                                                                     *)
(***************************************************************************)
\* a POST to a registered unary or server-streaming method
RpcCall(c) == UnaryCall(c) \/ ServerStreamingCall(c)

\* C15: in every unary or server-streaming call start_response is called
\* at most once, every body chunk handed to the server comes after that
\* call, and a call whose response has ended has called it exactly once.
C15_StartResponseOnceBeforeBody ==
    \A c \in Calls :
        RpcCall(c)
        => /\ Count(c, "start_response") <= 1
           /\ \A i \in 1..Len(log[c]) :
                  log[c][i] = "chunk"
                  => \E j \in 1..(i - 1) : log[c][j] = "start_response"
           /\ body[c] # <<>> => status[c] # None
           /\ pc[c] = "done" => Count(c, "start_response") = 1

\* a server-streaming call has ended after three body chunks
C15_Witness ==
    \E c \in Calls :
        /\ ServerStreamingCall(c)
        /\ pc[c] = "done"
        /\ Count(c, "start_response") = 1
        /\ Count(c, "chunk") = 3

(***************************************************************************)
(* C16: two calls served by the same adapter at the same time.             *)
(***************************************************************************)
\* the calls that run side by side: a unary call that returns, one that
\* aborts, a server-streaming call that sets a code between its values, and
\* one with a deadline
ConcurrentInputs ==
    {<<Environ("POST", "/u", None, "plain"),
       <<<<"set_trailing_metadata", TrailingMetadata>>, <<"return", 1>>>>>>,
     <<Environ("POST", "/u", None, "plain"),
       <<<<"send_initial_metadata", InitialMetadata>>,
         <<"abort", "INVALID_ARGUMENT", "a b">>>>>>,
     <<Environ("POST", "/s", None, "plain"),
       <<<<"yield", 1>>, <<"set_code", "INVALID_ARGUMENT">>,
         <<"yield", 2>>>>>>,
     <<Environ("POST", "/s", "1n", "plain"),
       <<<<"yield", 1>>, <<"set_details", "a b">>>>>>}

\* the server calls the adapter for call c while the other call is anywhere
ArriveConcurrent(c) ==
    /\ pc[c] = "idle"
    /\ \E input \in ConcurrentInputs : Call(c, input[1], input[2])

NextConcurrent ==
    \E c \in Calls :
        \/ ArriveConcurrent(c)
        \/ ReadRequest(c)
        \/ CreateContext(c)
        \/ Unwrap(c)
        \/ Dispatch(c)
        \/ Handler(c)
        \/ UnaryResponse(c)
        \/ UnaryMessage(c)
        \/ UnaryTrailer(c)
        \/ Pull(c)
        \/ Generator(c)
        \/ StreamStart(c)
        \/ FirstFrame(c)
        \/ Frame(c)
        \/ Trailers(c)

SpecConcurrent == Init /\ [][NextConcurrent]_vars

\* all that belongs to call c
Local(c) ==
    <<pc[c], environ[c], behaviour[c], rpc_method[c], result[c],
      downstream[c], request_data[c], request_proto[c], context[c], resp[c],
      ip[c], first_message[c], message[c], message_data[c], trailer_data[c],
      status[c], headers[c], body[c], error[c], log[c]>>

\* the response of call c and what the context gave to it
Response(c) ==
    <<pc[c], status[c], headers[c], body[c], error[c], context[c].code,
      context[c].details, context[c]._initial_metadata,
      context[c]._trailing_metadata>>

\* every step belongs to one call: it leaves all that belongs to the other
\* call, and the adapter, as they are
StepsAreCallLocal ==
    \A c \in Calls :
        Local(c)' # Local(c)
        => /\ \A d \in Calls \ {c} : Local(d)' = Local(d)
           /\ application' = application
           /\ handlers' = handlers

\* two ended calls with the same request, the same handler and the same
\* outcomes of their deadline checks have the same response, however their
\* steps were interleaved
SameCallSameResponse ==
    \A c, d \in Calls :
        (/\ Ended(c) /\ Ended(d)
         /\ environ[c] = environ[d]
         /\ behaviour[c] = behaviour[d]
         /\ log[c] = log[d])
        => Response(c) = Response(d)

\* C16: however the steps of two calls to the same adapter are interleaved,
\* a step of one call never writes the status, headers, body, context or
\* any other state of the other call, nor the adapter's, and the response
\* of a call is the one its request and handler give: the other call's
\* code, details, deadline and metadata never show in it.
C16_CallsAreIndependent == [][StepsAreCallLocal]_vars /\ []SameCallSameResponse

\* both calls are in progress, each with a context of its own: a unary call
\* that aborted and a server-streaming call that has yielded its first
\* value
C16_Witness ==
    /\ pc[1] = "unary_response"
    /\ context[1].code = "INVALID_ARGUMENT"
    /\ pc[2] = "first_frame"
    /\ context[2].code = "OK"
    /\ context[2]._initial_metadata = <<>>

(***************************************************************************)
(* C17                                                                     *)
(***************************************************************************)
\* C17: a chunked body whose size line is empty (the input has ended) or
\* is the CRLF terminator alone stops the read loop without an error, and
\* the reader returns the chunks collected so far, joined.
C17_EmptyOrTerminatorLineEndsBody ==
    \A c \in Calls :
        (/\ Did(c, "read")
         /\ RequestMethod(c) = "POST"
         /\ EnvGet(environ[c], "HTTP_TRANSFER_ENCODING") = "chunked"
         /\ ~MalformedTimeout(c))
        => \A chunks \in ChunkLists :
               (\/ ChunkedRequest(c, TruncatedBody(chunks))
                \/ ChunkedRequest(c, TerminatedBody(chunks)))
               => /\ request_data[c] = Concat(Payloads(chunks))
                  /\ pc[c] = "failed" => Did(c, "context")

(***************************************************************************)
(* C18                                                                     *)
(***************************************************************************)
\* the grpc-message trailer line that reports the details of an abort
AbortMessageLines(details) ==
    CASE details = "a b" -> <<Encode("grpc-message: a%20b")>>
      [] details = "" -> <<>>

\* C18: when the handler of a server-streaming call aborts with a code
\* other than OK after it has yielded k >= 1 values, the body is those k
\* message frames in yield order and then one trailer frame, whose lines
\* are the grpc-status of the abort, the percent-encoded grpc-message when
\* the details are not empty, and the trailing metadata in the order set.
C18_AbortAfterValues ==
    \A c \in Calls :
        (/\ ServerStreamingCall(c)
         /\ AbortedNotOk(c)
         /\ Did(c, "yield"))
        => /\ error[c] = None
           /\ pc[c] # "failed"
           /\ pc[c] = "done"
              => LET frames == ResponseFrames(c)
                     values == YieldedValues(behaviour[c])
                     k == Len(values)
                 IN  /\ k = Count(c, "yield")
                     /\ Len(frames) = k + 1
                     /\ \A i \in 1..k : frames[i] = MessageFrame(values[i])
                     /\ IsTrailerFrame(frames[k + 1])
                     /\ TrailerLines(frames[k + 1].payload)
                          = <<Encode("grpc-status: "
                                  \o AbortStatusText(AbortCode(c)))>>
                              \o AbortMessageLines(AbortDetails(c))
                              \o TrailingMetadataLines(behaviour[c])

\* a server-streaming call has ended after two values, trailing metadata
\* and an abort with details
C18_Witness ==
    \E c \in Calls :
        /\ ServerStreamingCall(c)
        /\ AbortedNotOk(c)
        /\ AbortDetails(c) = "a b"
        /\ Count(c, "yield") = 2
        /\ SetsTrailingMetadata(behaviour[c])
        /\ pc[c] = "done"

(***************************************************************************)
(* C19                                                                     *)
(***************************************************************************)
\* C19: a server-streaming call with a deadline that no check finds
\* expired, whose handler yields n >= 1 values and then ends, responds as
\* it does without a deadline: the n message frames in yield order and
\* then one trailer frame with the status of the context.
C19_DeadlineGuardPassesEnd ==
    \A c \in Calls :
        (/\ ServerStreamingCall(c)
         /\ resp[c].kind = "generator"
         /\ resp[c].timeout
         /\ ~Did(c, "expired")
         /\ Did(c, "yield")
         /\ Did(c, "stop"))
        => LET frames == ResponseFrames(c)
               values == YieldedValues(behaviour[c])
               n == Len(values)
           IN  /\ error[c] = None
               /\ pc[c] # "failed"
               /\ pc[c] = "done"
                  => /\ Len(frames) = n + 1
                     /\ \A i \in 1..n : frames[i] = MessageFrame(values[i])
                     /\ IsTrailerFrame(frames[n + 1])
                     /\ TrailerLines(frames[n + 1].payload)[1]
                          = Encode("grpc-status: "
                                \o Str(StatusValue[context[c].code]))

(***************************************************************************)
(* C20                                                                     *)
(***************************************************************************)
\* what a run does before its first yield
BeforeFirstYield(run) ==
    LET yields == {i \in 1..Len(run) : run[i][1] = "yield"}
    IN  IF yields = {} THEN run
        ELSE SubSeq(run, 1, (CHOOSE i \in yields : \A j \in yields : i <= j) - 1)

\* the argument of the last of these operations that writes field, or the
\* value the context starts with
LastWrite(ops, writers, start, arg) ==
    LET at == {i \in 1..Len(ops) :
                  ops[i][1] \in writers /\ ops[i] # <<"abort", "OK", "">>}
    IN  IF at = {} THEN start
        ELSE ops[CHOOSE i \in at : \A j \in at : j <= i][
                 IF ops[CHOOSE i \in at : \A j \in at : j <= i][1] = "abort"
                 THEN arg ELSE 2]

LastCode(ops) == LastWrite(ops, {"set_code", "abort"}, "OK", 2)

LastDetails(ops) == LastWrite(ops, {"set_details", "abort"}, None, 3)

\* the grpc-status trailer line of the codes the handlers of the model use
StatusLine(code) ==
    CASE code = "OK" -> Encode("grpc-status: 0")
      [] code = "INVALID_ARGUMENT" -> Encode("grpc-status: 3")
      [] code = "UNAVAILABLE" -> Encode("grpc-status: 14")

\* the grpc-message trailer line of the details the handlers use
MessageLines(details) ==
    IF details = "a b" THEN <<Encode("grpc-message: a%20b")>> ELSE <<>>

\* C20: in a server-streaming call the status line and the headers are
\* those of the context when the first value was pulled: what the handler
\* sets after its first yield (code, details, initial metadata) never shows
\* in them. The trailer frame of a call whose handler ended or aborted
\* reports the code, the details and the trailing metadata written last.
C20_HeadersFixedTrailerLast ==
    \A c \in Calls :
        (/\ ServerStreamingCall(c)
         /\ Did(c, "yield")
         /\ Did(c, "start_response"))
        => LET run == behaviour[c]
               before == BeforeFirstYield(run)
               frames == ResponseFrames(c)
           IN  /\ status[c] = MappedStatusLine(LastCode(before))
               /\ headers[c]
                    = <<<<"Content-Type", "application/grpc-web+proto">>,
                        <<"Access-Control-Allow-Origin", "*">>,
                        <<"Access-Control-Expose-Headers", "*">>>>
                      \o (IF \E i \in 1..Len(before) :
                                before[i][1] = "send_initial_metadata"
                          THEN <<<<"x-k", "v">>>> ELSE <<>>)
               /\ (pc[c] = "done" /\ ~Did(c, "expired"))
                  => /\ IsTrailerFrame(frames[Len(frames)])
                     /\ TrailerLines(frames[Len(frames)].payload)
                          = <<StatusLine(LastCode(run))>>
                              \o MessageLines(LastDetails(run))
                              \o TrailingMetadataLines(run)

\* a server-streaming call has ended whose handler sent initial metadata
\* and set a code after its first yield: neither is in the status line or
\* the headers
C20_Witness ==
    \E c \in Calls :
        /\ ServerStreamingCall(c)
        /\ pc[c] = "done"
        /\ BeforeFirstYield(behaviour[c]) = <<>>
        /\ context[c].code = "INVALID_ARGUMENT"
        /\ context[c]._initial_metadata # <<>>
        /\ status[c] = "200 OK"
        /\ Len(headers[c]) = 3

====
